---- MODULE Spec2Model ----
(***************************************************************************)
(* redux-resource: the Resource class of src/lib/resource.js.              *)
(*                                                                         *)
(* The store is the redux store slice of one Resource ({items, awaiting,   *)
(* resolved}) together with everything the interceptor touches: lodash's   *)
(* uniqueId counter, the promises handed out by await, and the promise     *)
(* chains started by fetch.  A dispatch runs synchronously to completion   *)
(* (nested dispatches included), so one dispatch from the application or   *)
(* one promise callback is one step.                                       *)
(***************************************************************************)
EXTENDS Naturals, Sequences, FiniteSets, TLC

VARIABLES
    optimistic,  \* config.optimistic, fixed at construction
    items,       \* state.items: entity id -> entity
    awaiting,    \* state.awaiting: list of waiters {id, resolve, reject}
    resolved,    \* state.resolved: list of settled trigger actions
    idCounter,   \* lodash's uniqueId counter (process wide)
    promises,    \* the promises made by await: the calls made to resolve/reject
    awaitedAction, \* for each promise made by await, the action it was made for
    fetches,     \* one promise chain per fetch() issued by the interceptor
    ops,         \* the operation actions the application has made
    turn,        \* what happened during the last synchronous turn, in order
    received,    \* every {id, attributes} pair that reached the reducer, in order
    nReceive     \* receive/receiveMany actions dispatched by the application

vars == <<optimistic, items, awaiting, resolved, idCounter, promises, awaitedAction,
          fetches, ops, turn, received, nReceive>>

(***************************************************************************)
(* Bounds of the model.                                                    *)
(***************************************************************************)
MaxRequests == 2   \* operations dispatched, each of which issues one REQUEST
MaxAwaits == 2     \* calls of await
MaxReceives == 3   \* receive/receiveMany actions dispatched by the application
MaxForeign == 1    \* foreign actions are dispatched while at most this many requests are out

(***************************************************************************)
(* Values.  Identifiers are the strings "1", "2", ... in the program       *)
(* (uniqueId returns the counter as a string, entity ids come from the     *)
(* server); they are modelled by the numbers, in one name space.           *)
(***************************************************************************)
Name == "todos"
Other == "users"

EntityIds == {1, 2}

\* a JS object literal with the given keys
Obj(D, f(_)) == [k \in D |-> f(k)]
Empty == Obj({}, LAMBDA k : 0)

\* attribute objects an application passes as data
Datas == {Empty, [id |-> 2, name |-> 2]}

\* entities a server answers with
Entities == {[id |-> 1, name |-> 1], [id |-> 2, name |-> 1]}

\* a response body: unparsable text, the JSON null, one object, or an array
Body(kind, ents) == [kind |-> kind, ents |-> ents]
null == Body("null", <<>>)
Unparsable == Body("bad", <<>>)
Bodies ==
    {Unparsable, null, Body("one", <<[id |-> 1, name |-> 1]>>),
     Body("many", <<[id |-> 2, name |-> 1], [id |-> 1, name |-> 2]>>)}

\* a spread in which the keys already there win
SpreadKeepsFirst(a, b) == a @@ b

\* {...a, ...b}: the keys of b win
Spread(a, b) == b @@ a

actionTypes ==
    [request     |-> "RESOURCE_API_REQUEST",
     create      |-> "RESOURCE_CREATE",
     get         |-> "RESOURCE_GET",
     update      |-> "RESOURCE_UPDATE",
     query       |-> "RESOURCE_QUERY",
     receive     |-> "RESOURCE_RECEIVE",
     receiveMany |-> "RESOURCE_RECEIVE_MANY",
     await       |-> "RESOURCE_AWAIT_ACTION",
     fail        |-> "RESOURCE_FAIL_ACTION",
     succeed     |-> "RESOURCE_SUCCEED_ACTION"]

(***************************************************************************)
(* The action factory.  uid is the value uniqueId returns for the call.    *)
(***************************************************************************)
_createAction(uid, action) ==
    Spread([resource |-> Name, id |-> uid], action)

create(uid, data) ==
    [type |-> actionTypes.create, resource |-> Name, id |-> uid, data |-> data]

update(uid, id, data) ==
    _createAction(uid, [type |-> actionTypes.update, id |-> id, data |-> data])

query(uid, params) ==
    _createAction(uid, [type |-> actionTypes.query, params |-> params])

get(uid, id) ==
    _createAction(uid, [type |-> actionTypes.get, params |-> [id |-> id]])

request(uid, trigger, method) ==
    _createAction(uid, [type |-> actionTypes.request, trigger |-> trigger,
                        options |-> [method |-> method]])

succeed(uid, action, response) ==
    _createAction(uid, [type |-> actionTypes.succeed, action |-> action,
                        response |-> response])

fail(action, response, error) ==
    [type |-> actionTypes.fail, resource |-> Name, action |-> action,
     response |-> response, error |-> error]

receive(id, attributes) ==
    [type |-> actionTypes.receive, resource |-> Name, id |-> id,
     attributes |-> attributes]

receiveMany(its) ==
    [type |-> actionTypes.receiveMany, resource |-> Name, items |-> its]

awaitAction(p, action) ==
    [type |-> actionTypes.await, resource |-> Name, resolve |-> p, reject |-> p,
     action |-> action]

(***************************************************************************)
(* The reducer.                                                            *)
(***************************************************************************)
\* _.reject(list, {id: id})
reject(list, id) == SelectSeq(list, LAMBDA w : w.id # id)

\* {id: id, ...attributes}
entity(id, attributes) == Spread([id |-> id], attributes)

\* zipObject keeping, for an id listed twice, the first pair instead of the last
RECURSIVE zipObjectFirstWins(_)
zipObjectFirstWins(its) ==
    IF its = <<>> THEN Empty
    ELSE LET n == Len(its)
         IN Spread(its[n].id :> Spread([id |-> its[n].id], its[n].attributes),
                   zipObjectFirstWins(SubSeq(its, 1, n - 1)))

\* _.zipObject(_.map(items, item => [item.id, {id: item.id, ...item.attributes}]))
RECURSIVE zipObject(_)
zipObject(its) ==
    IF its = <<>> THEN Empty
    ELSE LET n == Len(its)
         IN Spread(zipObject(SubSeq(its, 1, n - 1)),
                   its[n].id :> entity(its[n].id, its[n].attributes))

\* the reducer without its resource filter
reducerIgnoresNothing(action) == FALSE

\* if (action.resource !== this.name) return state
reducerIgnores(action) == action.resource # Name

_reducer(state, action) ==
    IF reducerIgnores(action) THEN state
    ELSE CASE action.type \in {actionTypes.succeed, actionTypes.fail} ->
                [state EXCEPT !.awaiting = reject(state.awaiting, action.action.id),
                              !.resolved = Append(state.resolved, action.action)]
           [] action.type = actionTypes.await ->
                [state EXCEPT !.awaiting =
                    Append(state.awaiting,
                           [id |-> action.action.id, resolve |-> action.resolve,
                            reject |-> action.reject])]
           [] action.type = actionTypes.receive ->
                [state EXCEPT !.items =
                    Spread(state.items,
                           action.id :> entity(action.id, action.attributes))]
           [] action.type = actionTypes.receiveMany ->
                [state EXCEPT !.items = Spread(state.items, zipObject(action.items))]
           [] OTHER -> state

(***************************************************************************)
(* The store the interceptor works on, as one value: the reducer's state   *)
(* and what the interceptor's side effects touch.                          *)
(***************************************************************************)
Store ==
    [items |-> items, awaiting |-> awaiting, resolved |-> resolved,
     idCounter |-> idCounter, promises |-> promises,
     awaitedAction |-> awaitedAction,
     fetches |-> fetches, received |-> received, turn |-> <<>>]

\* store.getState()[this.config.name]
getState(s) == [items |-> s.items, awaiting |-> s.awaiting, resolved |-> s.resolved]

Event(ev, act) == [ev |-> ev, act |-> act]
Emit(s, ev, act) == [s EXCEPT !.turn = Append(@, Event(ev, act))]

\* the {id, attributes} pairs an action of this resource hands to the reducer
Pairs(action) ==
    IF action.resource # Name THEN <<>>
    ELSE IF action.type = actionTypes.receive
         THEN <<[id |-> action.id, attributes |-> action.attributes]>>
    ELSE IF action.type = actionTypes.receiveMany THEN action.items
    ELSE <<>>

\* next(action): the rest of the chain is the store, which runs the reducer
next(s, action) ==
    LET state == _reducer(getState(s), action)
    IN [Emit(s, "next", action) EXCEPT
            !.items = state.items,
            !.awaiting = state.awaiting,
            !.resolved = state.resolved,
            !.received = @ \o Pairs(action)]

\* _.findWhere(list, {id: id}): the first match, or nothing
findWhere(list, id) ==
    LET S == {i \in 1..Len(list) : list[i].id = id}
    IN IF S = {} THEN <<>>
       ELSE <<list[CHOOSE i \in S : \A j \in S : i <= j]>>

\* a call of the resolve or reject function of promise p
Call(s, fn, p, arg) ==
    [Emit(s, fn, [p |-> p, arg |-> arg]) EXCEPT
        !.promises[p] = Append(@, [fn |-> fn, arg |-> arg])]

\* _.uniqueId()
uniqueId(s) == s.idCounter + 1
Counted(s) == [s EXCEPT !.idCounter = @ + 1]

\* fetch(url, options): a new promise chain, pending on the network
fetch(s, action) ==
    [Emit(s, "fetch", action) EXCEPT
        !.fetches = Append(@, [request |-> action, pc |-> "pending", status |-> 0,
                               body |-> null, error |-> "", sent |-> <<>>,
                               parses |-> 0])]

\* the interceptor without its resource filter
middlewarePassesNothing(action) == FALSE

middlewarePasses(action) == action.resource # Name

\* the cached entity not looked up: always undefined
ItemUndefined(state, id) == Empty

\* state.items[action.id], undefined when absent
Item(state, id) == IF id \in DOMAIN state.items THEN state.items[id] ELSE Empty

(***************************************************************************)
(* The interceptor: store.dispatch(action) runs _middleware, which may     *)
(* dispatch derived actions before it hands the action to next.            *)
(***************************************************************************)
RECURSIVE dispatch(_, _)

\* the AWAIT branch handing the action to next before it dispatches the wrapped one
awaitBranchNextFirst(s, action) == dispatch(next(s, action), action.action)

\* case actionTypes.await: dispatch(action.action); return next(action)
awaitBranch(s, action) == next(dispatch(s, action.action), action)

\* the REQUEST branch without its return next(action)
requestBranchNoNext(s, action) == fetch(s, action)

\* case actionTypes.request: fetch(url, options)...; return next(action)
requestBranch(s, action) == next(fetch(s, action), action)

dispatch(s, action) ==
    LET state == getState(s)
        s0 == Emit(s, "dispatch", action)
    IN IF middlewarePasses(action) THEN next(s0, action)
       ELSE CASE action.type = actionTypes.await -> awaitBranch(s0, action)
              [] action.type = actionTypes.fail ->
                    LET waiter == findWhere(state.awaiting, action.action.id)
                    IN next(IF waiter # <<>>
                            THEN Call(s0, "reject", waiter[1].reject, action.response)
                            ELSE s0, action)
              [] action.type = actionTypes.succeed ->
                    LET waiter == findWhere(state.awaiting, action.action.id)
                    IN next(IF waiter # <<>>
                            THEN Call(s0, "resolve", waiter[1].resolve, action.response)
                            ELSE s0, action)
              [] action.type = actionTypes.update ->
                    LET s1 == dispatch(Counted(s0), request(uniqueId(s0), action, "PATCH"))
                        s2 == IF optimistic
                              THEN dispatch(s1, receive(action.id,
                                       Spread(Item(state, action.id), action.data)))
                              ELSE s1
                    IN next(s2, action)
              [] action.type = actionTypes.create ->
                    next(dispatch(Counted(s0), request(uniqueId(s0), action, "POST")), action)
              [] action.type = actionTypes.query ->
                    next(dispatch(Counted(s0), request(uniqueId(s0), action, "GET")), action)
              [] action.type = actionTypes.get ->
                    next(dispatch(Counted(s0), request(uniqueId(s0), action, "GET")), action)
              [] action.type = actionTypes.request -> requestBranch(s0, action)
              [] OTHER -> next(s0, action)

\* await(dispatch, action): a new promise, whose resolve and reject go into AWAIT
await(s, action) ==
    LET p == Len(s.promises) + 1
    IN dispatch([s EXCEPT !.promises = Append(@, <<>>),
                          !.awaitedAction = Append(@, action)],
                awaitAction(p, action))

(***************************************************************************)
(* The promise chain of the REQUEST branch:                                *)
(*   fetch(url, options).then(onResponse).then(onData, onError).catch(..)  *)
(* pc of a fetch: "pending" (the network call is out), "fulfilled" or      *)
(* "rejected" (the first then has settled), "errjson" (the error body is   *)
(* being parsed), "thrown" (the second then has thrown), "done".           *)
(***************************************************************************)
\* ok with the upper end of the range included
okUpTo300(status) == status >= 200 /\ status <= 300

ok(status) == status >= 200 /\ status < 300

parsable(body) == body.kind # "bad"

\* error.response is set only on the error the first then throws
hasResponse(error) == error = "HttpError"

\* dataExtractors.flat: every element of an array, or the datum itself
flat(data) == IF data.kind = "many" THEN data.ents ELSE <<data>>

\* the extract callback: items.push({id: datum.id, attributes: datum})
RECURSIVE pushAll(_)
pushAll(datums) ==
    IF datums = <<>> THEN <<>>
    ELSE Append(pushAll(SubSeq(datums, 1, Len(datums) - 1)),
                [id |-> datums[Len(datums)].id,
                 attributes |-> datums[Len(datums)]])

\* the datum of a body that is one object
Datum(data) == data.ents[1]

\* the extractor's callback collecting nothing
extractNothing(data) == <<>>

extract(data) ==
    IF data.kind = "many" THEN pushAll(flat(data)) ELSE pushAll(<<Datum(data)>>)

\* datum.id of the JSON null throws a TypeError
extractThrows(data) == \E i \in 1..Len(flat(data)) : flat(data)[i] = null

\* a dispatch made by a callback of chain f
send(s, f, action) ==
    [dispatch(s, action) EXCEPT !.fetches[f].sent = Append(@, action)]

\* .then(response => ...): the response handler's promise, or the thrown error
onResponse(s, f, status, body) ==
    IF ok(status)
    THEN IF parsable(body)
         THEN [s EXCEPT !.fetches[f].pc = "fulfilled", !.fetches[f].status = status,
                        !.fetches[f].body = body, !.fetches[f].parses = @ + 1]
         ELSE [s EXCEPT !.fetches[f].pc = "rejected", !.fetches[f].status = status,
                        !.fetches[f].body = body, !.fetches[f].error = "SyntaxError",
                        !.fetches[f].parses = @ + 1]
    ELSE [s EXCEPT !.fetches[f].pc = "rejected", !.fetches[f].status = status,
                   !.fetches[f].body = body, !.fetches[f].error = "HttpError"]

\* onData dispatching RECEIVE_MANY before SUCCEED
onDataReceiveFirst(s, f) ==
    LET action == s.fetches[f].request
        data == s.fetches[f].body
    IN IF extractThrows(data)
       THEN [send(Counted(s), f, succeed(uniqueId(s), action.trigger, data))
                EXCEPT !.fetches[f].pc = "thrown", !.fetches[f].error = "TypeError"]
       ELSE LET s1 == send(s, f, receiveMany(extract(data)))
            IN [send(Counted(s1), f, succeed(uniqueId(s1), action.trigger, data))
                    EXCEPT !.fetches[f].pc = "done"]

\* .then(data => ...)
onData(s, f) ==
    LET action == s.fetches[f].request
        data == s.fetches[f].body
        s1 == send(Counted(s), f, succeed(uniqueId(s), action.trigger, data))
    IN IF extractThrows(data)
       THEN [s1 EXCEPT !.fetches[f].pc = "thrown", !.fetches[f].error = "TypeError"]
       ELSE [send(s1, f, receiveMany(extract(data))) EXCEPT !.fetches[f].pc = "done"]

\* .then(..., error => ...)
onError(s, f) ==
    LET action == s.fetches[f].request
        error == s.fetches[f].error
        s1 == IF ~hasResponse(error)
              THEN send(s, f, fail(action.trigger, null, error))
              ELSE s
    IN IF hasResponse(error)
       THEN [s1 EXCEPT !.fetches[f].pc = "errjson", !.fetches[f].parses = @ + 1]
       ELSE [s1 EXCEPT !.fetches[f].pc = "thrown", !.fetches[f].error = "TypeError"]

\* error.response.json().then(data => ..., response => ...)
onErrorBody(s, f) ==
    LET action == s.fetches[f].request
        body == s.fetches[f].body
        s1 == IF parsable(body)
              THEN send(s, f, fail(action.trigger, body, "HttpError"))
              ELSE send(s, f, fail(action.trigger, null, "HttpError"))
    IN [s1 EXCEPT !.fetches[f].pc = "done"]

\* .catch(err => ...)
onCatch(s, f) ==
    LET action == s.fetches[f].request
    IN [send(s, f, fail(action.trigger, null, s.fetches[f].error))
            EXCEPT !.fetches[f].pc = "done"]

(***************************************************************************)
(* Steps.                                                                  *)
(***************************************************************************)
Commit(s) ==
    /\ items' = s.items
    /\ awaiting' = s.awaiting
    /\ resolved' = s.resolved
    /\ idCounter' = s.idCounter
    /\ promises' = s.promises
    /\ awaitedAction' = s.awaitedAction
    /\ fetches' = s.fetches
    /\ received' = s.received
    /\ turn' = s.turn

Init ==
    /\ optimistic \in BOOLEAN
    /\ items = Empty
    /\ awaiting = <<>>
    /\ resolved = <<>>
    /\ idCounter = 0
    /\ promises = <<>>
    /\ awaitedAction = <<>>
    /\ fetches = <<>>
    /\ ops = <<>>
    /\ turn = <<>>
    /\ received = <<>>
    /\ nReceive = 0

\* the application makes an operation action and dispatches it, awaited or not
Start(a, awaited) ==
    /\ Len(fetches) < MaxRequests
    /\ awaited => Len(promises) < MaxAwaits
    /\ Commit(IF awaited THEN await(Counted(Store), a) ELSE dispatch(Counted(Store), a))
    /\ ops' = Append(ops, a)
    /\ UNCHANGED <<optimistic, nReceive>>

Create ==
    \E data \in Datas, awaited \in BOOLEAN :
        Start(create(uniqueId(Store), data), awaited)

Update ==
    \E id \in EntityIds, data \in Datas, awaited \in BOOLEAN :
        Start(update(uniqueId(Store), id, data), awaited)

Query ==
    \E awaited \in BOOLEAN :
        Start(query(uniqueId(Store), Empty), awaited)

Get ==
    \E id \in EntityIds, awaited \in BOOLEAN :
        Start(get(uniqueId(Store), id), awaited)

\* await(dispatch, action) on an action that was dispatched before
AwaitAgain ==
    \E i \in 1..Len(ops) :
        /\ Len(fetches) < MaxRequests
        /\ Len(promises) < MaxAwaits
        /\ Commit(await(Store, ops[i]))
        /\ UNCHANGED <<optimistic, ops, nReceive>>

ReceivedItems ==
    { <<>>,
      <<[id |-> 1, attributes |-> [id |-> 1, name |-> 1]]>>,
      <<[id |-> 1, attributes |-> [name |-> 1]], [id |-> 1, attributes |-> Empty]>>,
      <<[id |-> 2, attributes |-> [name |-> 2]], [id |-> 1, attributes |-> [name |-> 2]]>> }

Receive ==
    \E id \in EntityIds, attributes \in Datas :
        /\ nReceive < MaxReceives
        /\ Commit(dispatch(Store, receive(id, attributes)))
        /\ nReceive' = nReceive + 1
        /\ UNCHANGED <<optimistic, ops>>

ReceiveMany ==
    \E its \in ReceivedItems :
        /\ nReceive < MaxReceives
        /\ Commit(dispatch(Store, receiveMany(its)))
        /\ nReceive' = nReceive + 1
        /\ UNCHANGED <<optimistic, ops>>

\* an action of another resource, of any type, shaped like this resource's
ForeignAction(type, id) ==
    LET inner == [type |-> actionTypes.create, resource |-> Other, id |-> id,
                  data |-> [name |-> 1]]
    IN [type |-> type, resource |-> Other, id |-> id, action |-> inner,
        trigger |-> inner, response |-> null, error |-> "",
        attributes |-> [name |-> 1],
        items |-> <<[id |-> id, attributes |-> [name |-> 1]]>>,
        data |-> [name |-> 1], params |-> [id |-> id],
        options |-> [method |-> "GET"], resolve |-> 1, reject |-> 1]

Types == {actionTypes[k] : k \in DOMAIN actionTypes}

Foreign ==
    \E type \in Types, id \in {1} :
        /\ Len(fetches) <= MaxForeign
        /\ Commit(dispatch(Store, ForeignAction(type, id)))
        /\ UNCHANGED <<optimistic, ops, nReceive>>

Statuses == {200, 300}
ErrorBodies == {Unparsable, Body("one", <<[id |-> 1, name |-> 1]>>)}

\* the network answers
Respond ==
    \E f \in 1..Len(fetches), status \in Statuses :
        \E body \in (IF status < 300 THEN Bodies ELSE ErrorBodies) :
            /\ fetches[f].pc = "pending"
            /\ Commit(onResponse(Store, f, status, body))
            /\ UNCHANGED <<optimistic, ops, nReceive>>

\* the network call fails: fetch rejects, and the first then passes the error on
Disconnect ==
    \E f \in 1..Len(fetches) :
        /\ fetches[f].pc = "pending"
        /\ Commit([Store EXCEPT !.fetches[f].pc = "rejected",
                                !.fetches[f].error = "NetworkError"])
        /\ UNCHANGED <<optimistic, ops, nReceive>>

OnData ==
    \E f \in 1..Len(fetches) :
        /\ fetches[f].pc = "fulfilled"
        /\ Commit(onData(Store, f))
        /\ UNCHANGED <<optimistic, ops, nReceive>>

OnError ==
    \E f \in 1..Len(fetches) :
        /\ fetches[f].pc = "rejected"
        /\ Commit(onError(Store, f))
        /\ UNCHANGED <<optimistic, ops, nReceive>>

OnErrorBody ==
    \E f \in 1..Len(fetches) :
        /\ fetches[f].pc = "errjson"
        /\ Commit(onErrorBody(Store, f))
        /\ UNCHANGED <<optimistic, ops, nReceive>>

OnCatch ==
    \E f \in 1..Len(fetches) :
        /\ fetches[f].pc = "thrown"
        /\ Commit(onCatch(Store, f))
        /\ UNCHANGED <<optimistic, ops, nReceive>>

Next ==
    \/ Create
    \/ Update
    \/ Query
    \/ Get
    \/ AwaitAgain
    \/ Foreign
    \/ Respond
    \/ Disconnect
    \/ OnData
    \/ OnError
    \/ OnErrorBody
    \/ OnCatch

Spec == Init /\ [][Next]_vars

\* the reducer alone, under receive and receiveMany actions
NextReceive ==
    \/ Receive
    \/ ReceiveMany

SpecReceive == Init /\ [][NextReceive]_vars

(***************************************************************************)
(* Properties.                                                             *)
(***************************************************************************)
Settles(a) == a.resource = Name /\ a.type \in {actionTypes.succeed, actionTypes.fail}
Callback(a) == IF a.type = actionTypes.succeed THEN "resolve" ELSE "reject"

\* the resolve or reject function of promise p was called during turn t
CalledIn(t, p) ==
    \E j \in 1..Len(t) : t[j].ev \in {"resolve", "reject"} /\ t[j].act.p = p

\* C1: a SUCCEED (FAIL) passing through the interceptor calls resolve (reject),
\* with its response, of every waiter whose id is its action.action.id, and
\* neither calls nor removes a waiter with another id.
C1_MatchingWaiterSettled ==
    [][\A i \in 1..Len(turn') :
         (turn'[i].ev = "dispatch" /\ Settles(turn'[i].act)) =>
            LET a == turn'[i].act
            IN \A k \in 1..Len(awaiting) :
                 IF awaiting[k].id = a.action.id
                 THEN \E j \in 1..Len(turn') :
                        turn'[j] = Event(Callback(a),
                                         [p |-> awaiting[k].resolve, arg |-> a.response])
                 ELSE /\ ~CalledIn(turn', awaiting[k].resolve)
                      /\ \E m \in 1..Len(awaiting') : awaiting'[m] = awaiting[k]]_vars

\* C2: an id for which a SUCCEED or FAIL has been reduced is not in awaiting
\* and is exactly once in resolved.
C2_ResolvedOnceNotAwaiting ==
    \A i \in 1..Len(resolved) :
        /\ \A k \in 1..Len(awaiting) : awaiting[k].id # resolved[i].id
        /\ Cardinality({j \in 1..Len(resolved) : resolved[j].id = resolved[i].id}) = 1

\* C3: at most one waiter per correlation id is in awaiting, and no id is in
\* awaiting and in resolved at once.
C3_OneWaiterPerId ==
    /\ \A i, j \in 1..Len(awaiting) : awaiting[i].id = awaiting[j].id => i = j
    /\ \A i \in 1..Len(awaiting), j \in 1..Len(resolved) :
          awaiting[i].id # resolved[j].id

\* C6: two distinct operation actions made by create, get, query and update
\* carry distinct correlation ids.
C6_DistinctCorrelationIds ==
    \A i, j \in 1..Len(ops) : ops[i].id = ops[j].id => i = j

\* the transport failed: the chain settled with no response
NoResponse(x) == x.pc # "pending" /\ x.status = 0

\* C7: a transport failure dispatches exactly one FAIL(trigger, null, error)
\* and parses no response body.
C7_TransportFailureFailsOnce ==
    \A f \in 1..Len(fetches) :
        NoResponse(fetches[f]) =>
            /\ fetches[f].parses = 0
            /\ Len(fetches[f].sent) <= 1
            /\ fetches[f].pc = "done" =>
                  fetches[f].sent =
                      <<fail(fetches[f].request.trigger, null, "NetworkError")>>

\* the index of the last pair received for id k
LastReceived(k) ==
    CHOOSE i \in 1..Len(received) :
        /\ received[i].id = k
        /\ \A j \in 1..Len(received) : received[j].id = k => j <= i

\* C4: the keys of items are exactly the ids received, and each id maps to the
\* attributes of the last pair received for it, and to id, with nothing left
\* of the pairs received before.
C4_ItemsAreLastReceived ==
    /\ DOMAIN items = {received[i].id : i \in 1..Len(received)}
    /\ \A k \in DOMAIN items :
          LET last == received[LastReceived(k)].attributes
          IN /\ DOMAIN items[k] = DOMAIN last \cup {"id"}
             /\ \A n \in DOMAIN last \ {"id"} : items[k][n] = last[n]
             /\ "id" \notin DOMAIN last => items[k].id = k

\* two ids received, one of them twice, the later time with fewer attributes
C4_Witness ==
    /\ Cardinality(DOMAIN items) = 2
    /\ \E i, j \in 1..Len(received) :
          /\ i < j
          /\ received[i].id = received[j].id
          /\ j = LastReceived(received[j].id)
          /\ "name" \in DOMAIN received[i].attributes
          /\ "name" \notin DOMAIN received[j].attributes

\* the turn is the dispatch of an action of another resource
ForeignTurn(t) == Len(t) >= 1 /\ t[1].ev = "dispatch" /\ t[1].act.resource # Name

\* C5: an action of another resource, of any type, is handed to next and
\* nothing else happens: no state change, no dispatch, no fetch, no callback.
C5_ForeignActionPassesThrough ==
    [][ForeignTurn(turn') =>
          /\ turn' = <<Event("dispatch", turn'[1].act), Event("next", turn'[1].act)>>
          /\ UNCHANGED <<items, awaiting, resolved, idCounter, promises, awaitedAction,
                         fetches, received>>]_vars

\* a foreign SUCCEED whose action.action.id is the id of a waiter of this resource,
\* while that waiter's request is out
C5_Witness ==
    /\ ForeignTurn(turn)
    /\ turn[1].act.type = actionTypes.succeed
    /\ \E k \in 1..Len(awaiting) : awaiting[k].id = turn[1].act.action.id
    /\ \E f \in 1..Len(fetches) : fetches[f].pc = "pending"

\* the network answered with a status outside [200, 300)
HttpError(x) == x.status # 0 /\ (x.status < 200 \/ x.status >= 300)

\* C8: a response with a status outside [200, 300) leads to no SUCCEED and no
\* RECEIVE_MANY and to exactly one FAIL for the trigger, whose response is the
\* parsed error body, or null when the body does not parse.
C8_HttpErrorFailsOnce ==
    \A f \in 1..Len(fetches) :
        LET x == fetches[f]
        IN HttpError(x) =>
            /\ Len(x.sent) <= 1
            /\ x.pc \in {"rejected", "errjson", "done"}
            /\ x.pc = "done" =>
                  /\ Len(x.sent) = 1
                  /\ x.sent[1].type = actionTypes.fail
                  /\ x.sent[1].action = x.request.trigger
                  /\ x.sent[1].response =
                        (IF x.body.kind = "bad" THEN null ELSE x.body)

\* two requests answered 300, one with a JSON body and one with an unparsable
\* body, both through
C8_Witness ==
    \E f, g \in 1..Len(fetches) :
        /\ fetches[f].status = 300 /\ fetches[f].pc = "done"
        /\ fetches[f].body.kind = "one"
        /\ fetches[f].sent[1].response = fetches[f].body
        /\ fetches[g].status = 300 /\ fetches[g].pc = "done"
        /\ fetches[g].body.kind = "bad"
        /\ fetches[g].sent[1].response = null

\* the network answered with a status in [200, 300)
Http2xx(x) == x.status >= 200 /\ x.status < 300

\* one {id, attributes} item per entity of the body
ItemsOf(body) ==
    [i \in 1..Len(body.ents) |-> [id |-> body.ents[i].id, attributes |-> body.ents[i]]]

IsSucceed(a, trigger, response) ==
    /\ a.type = actionTypes.succeed
    /\ a.resource = Name
    /\ a.action = trigger
    /\ a.response = response

\* in the turn, a RECEIVE_MANY is dispatched only after a SUCCEED was reduced
\* and after every call of a waiter's callback
SucceedReducedFirst(t) ==
    \A i \in 1..Len(t) :
        (t[i].ev = "dispatch" /\ t[i].act.resource = Name
                              /\ t[i].act.type = actionTypes.receiveMany) =>
            /\ \E j \in 1..(i - 1) :
                  t[j].ev = "next" /\ t[j].act.type = actionTypes.succeed
            /\ \A j \in 1..Len(t) : t[j].ev \in {"resolve", "reject"} => j < i

CreateAnswered ==
    /\ Len(ops) = 1 /\ ops[1].type = actionTypes.create
    /\ Len(fetches) = 1 /\ fetches[1].pc = "done"
    /\ Http2xx(fetches[1]) /\ fetches[1].body.kind = "one"

\* C10: a create through the full chain, answered 2xx with one entity, ends
\* with that entity in items under its id and the create action alone in resolved.
C10_CreateRoundTrip ==
    CreateAnswered =>
        LET e == fetches[1].body.ents[1]
        IN /\ DOMAIN items = {e.id}
           /\ items[e.id] = e
           /\ resolved = <<ops[1]>>

C10_Witness ==
    /\ CreateAnswered
    /\ fetches[1].status = 200
    /\ Len(resolved) = 1

(***************************************************************************)
(* Optimistic updates.                                                     *)
(***************************************************************************)
\* the positions of turn t at which an action of this resource of the given
\* type was dispatched
DispatchedIn(t, type) ==
    {i \in 1..Len(t) : /\ t[i].ev = "dispatch"
                       /\ t[i].act.resource = Name
                       /\ t[i].act.type = type}

\* C11: with optimistic on, when the dispatch of update(id, data) returns, its
\* network call is still out and items[id] is the entity cached before the
\* dispatch with data merged over it (data alone, under its id, when nothing
\* was cached); a FAIL changes no entity, so the optimistic value stays.
C11_OptimisticUpdateStays ==
    [][/\ optimistic =>
            \A i \in DispatchedIn(turn', actionTypes.update) :
                LET a == turn'[i].act
                    cached == IF a.id \in DOMAIN items THEN items[a.id]
                              ELSE [id |-> a.id]
                IN /\ a.id \in DOMAIN items'
                   /\ items'[a.id] = a.data @@ cached
                   /\ \E f \in 1..Len(fetches') :
                         /\ f > Len(fetches)
                         /\ fetches'[f].request.trigger = a
                         /\ fetches'[f].pc = "pending"
       /\ DispatchedIn(turn', actionTypes.fail) # {} => items' = items]_vars

\* an optimistic update with no data of its own on a cached entity, whose
\* request was answered with an error: the FAIL has just gone through and the
\* entity is still there with what was cached
C11_Witness ==
    /\ optimistic
    /\ \E f \in 1..Len(fetches) :
          LET x == fetches[f]
              a == x.request.trigger
          IN /\ a.type = actionTypes.update /\ a.data = Empty
             /\ HttpError(x) /\ x.pc = "done"
             /\ turn # <<>> /\ turn[1] = Event("dispatch", x.sent[1])
             /\ a.id \in DOMAIN items
             /\ "name" \in DOMAIN items[a.id]

\* the object literal a RECEIVE, or a RECEIVE_MANY item, writes: {id, ...attributes}
Written(pair) == pair.attributes @@ [id |-> pair.id]

\* C12: whatever the order of optimistic receives and server responses, each
\* entity of items is exactly what the last RECEIVE or RECEIVE_MANY item for its
\* id wrote: nothing of an earlier write is left in it.
C12_LastWriteWins ==
    /\ DOMAIN items = {received[i].id : i \in 1..Len(received)}
    /\ \A k \in DOMAIN items : items[k] = Written(received[LastReceived(k)])

\* two optimistic updates of one entity with different data, answered 2xx in
\* the opposite order, both through
C12_Witness ==
    /\ optimistic
    /\ Len(fetches) = 2
    /\ \A f \in 1..2 :
          /\ fetches[f].request.trigger.type = actionTypes.update
          /\ Http2xx(fetches[f]) /\ fetches[f].pc = "done"
          /\ fetches[f].body.kind # "null"
    /\ fetches[1].request.trigger.id = fetches[2].request.trigger.id
    /\ fetches[1].request.trigger.data # fetches[2].request.trigger.data
    /\ resolved = <<fetches[2].request.trigger, fetches[1].request.trigger>>

(***************************************************************************)
(* Waiters and the operations they were made for.                          *)
(***************************************************************************)
\* the waiters of awaiting (by position) made for operation action a
WaitersOf(a) == {k \in 1..Len(awaiting) : awaitedAction[awaiting[k].resolve] = a}

\* C13: a SUCCEED or FAIL of an operation removes and settles the waiter made
\* for that operation and no other: every waiter made for another operation
\* stays in awaiting and none of its callbacks is called.
C13_SettlesOwnWaiterOnly ==
    [][\A i \in 1..Len(turn') :
          (turn'[i].ev = "dispatch" /\ Settles(turn'[i].act)) =>
              LET a == turn'[i].act.action
              IN /\ \A k \in 1..Len(awaiting) :
                       IF k \in WaitersOf(a)
                       THEN \A m \in 1..Len(awaiting') : awaiting'[m] # awaiting[k]
                       ELSE /\ ~CalledIn(turn', awaiting[k].resolve)
                            /\ \E m \in 1..Len(awaiting') : awaiting'[m] = awaiting[k]
                 /\ WaitersOf(a) # {} =>
                       \E k \in WaitersOf(a) : CalledIn(turn', awaiting[k].resolve)]_vars

(***************************************************************************)
(* What one dispatch does before it returns.                               *)
(***************************************************************************)
\* C14: the dispatch of a REQUEST hands the REQUEST to next before it returns,
\* with its network call started and still out, and neither a SUCCEED, a FAIL
\* nor a RECEIVE_MANY is dispatched before it returns.
C14_RequestForwardedFirst ==
    [][\A i \in DispatchedIn(turn', actionTypes.request) :
          LET r == turn'[i].act
          IN /\ \E j \in 1..Len(turn') : j > i /\ turn'[j] = Event("next", r)
             /\ \E f \in 1..Len(fetches') :
                   /\ f > Len(fetches)
                   /\ fetches'[f].request = r
                   /\ fetches'[f].pc = "pending" /\ fetches'[f].sent = <<>>
             /\ DispatchedIn(turn', actionTypes.succeed) = {}
             /\ DispatchedIn(turn', actionTypes.fail) = {}
             /\ DispatchedIn(turn', actionTypes.receiveMany) = {}]_vars

\* the SUCCEED of the first request is dispatched now, after a second request
\* was dispatched and reduced in between: that one is still out
C14_Witness ==
    /\ Len(fetches) = 2
    /\ fetches[1].sent # <<>> /\ fetches[1].sent[1].type = actionTypes.succeed
    /\ turn # <<>> /\ turn[1] = Event("dispatch", fetches[1].sent[1])
    /\ fetches[2].pc = "pending"

(***************************************************************************)
(* The end of an operation.                                                *)
(***************************************************************************)
\* the fetches made for operation action a
FetchesOf(a) == {f \in 1..Len(fetches) : fetches[f].request.trigger = a}

\* promise p has its waiter in awaiting
Waiting(p) == \E k \in 1..Len(awaiting) : awaiting[k].resolve = p

\* C15: once the network call of an awaited operation has completed and the
\* callbacks of its chain have run, the promise await returned is settled and
\* its waiter is out of awaiting.
C15_AwaitedOperationSettles ==
    \A p \in 1..Len(promises) :
        (\A f \in FetchesOf(awaitedAction[p]) : fetches[f].pc = "done") =>
            /\ promises[p] # <<>>
            /\ ~Waiting(p)

\* C16: every key k of items maps to an entity whose id is k.
C16_EntityIdIsKey ==
    \A k \in DOMAIN items : items[k].id = k

\* the SUCCEED and FAIL actions the chain of fetch x has dispatched
Terminals(x) ==
    {i \in 1..Len(x.sent) : x.sent[i].type \in {actionTypes.succeed, actionTypes.fail}}

\* C17: the chain of a request dispatches at most one terminal action, SUCCEED
\* or FAIL, and exactly one once it has run to its end.
C17_OneTerminalAction ==
    \A f \in 1..Len(fetches) :
        /\ Cardinality(Terminals(fetches[f])) <= 1
        /\ fetches[f].pc = "done" => Cardinality(Terminals(fetches[f])) = 1

\* C19: a waiter no longer in awaiting has had one callback called, once; a
\* waiter still in awaiting has had none called.
C19_RemovedWaiterSettledOnce ==
    \A p \in 1..Len(promises) :
        IF Waiting(p) THEN promises[p] = <<>> ELSE Len(promises[p]) = 1

(***************************************************************************)
(* What the reducer steps of one turn do to resolved.                      *)
(***************************************************************************)
\* the SUCCEED and FAIL actions of this resource handed to the reducer
\* during turn t, in order
Settled(t) == SelectSeq(t, LAMBDA e : e.ev = "next" /\ Settles(e.act))

\* C18: resolved only grows at its end, by the action.action of each SUCCEED
\* and FAIL of this resource the reducer is handed, one entry each, and by
\* nothing else.
C18_ResolvedAppendOnly ==
    [][resolved' = resolved \o [i \in 1..Len(Settled(turn')) |->
                                   Settled(turn')[i].act.action]]_vars

\* a FAIL has just been reduced and its action.action is the second entry
C18_Witness ==
    /\ Len(resolved) = 2
    /\ Len(Settled(turn)) = 1
    /\ Settled(turn)[1].act.type = actionTypes.fail
    /\ resolved[2] = Settled(turn)[1].act.action
    /\ resolved[1] # resolved[2]

\* the operation types the interceptor turns into a REQUEST
Operations ==
    {actionTypes.create, actionTypes.get, actionTypes.query, actionTypes.update}

\* between its dispatch at position i and its hand-over to next at position n,
\* everything the interceptor derives from a was dispatched and reduced
DerivedBetween(i, n, a) ==
    CASE a.type = actionTypes.await ->
            \E d, m \in 1..Len(turn) :
                /\ i < d /\ d < m /\ m < n
                /\ turn[d] = Event("dispatch", a.action)
                /\ turn[m] = Event("next", a.action)
      [] a.type \in Operations ->
            \E d, m \in 1..Len(turn) :
                /\ i < d /\ d < m /\ m < n
                /\ turn[d].ev = "dispatch"
                /\ turn[d].act.type = actionTypes.request
                /\ turn[d].act.trigger = a
                /\ turn[m] = Event("next", turn[d].act)
                /\ (a.type = actionTypes.update /\ optimistic) =>
                      \E d2, m2 \in 1..Len(turn) :
                          /\ m < d2 /\ d2 < m2 /\ m2 < n
                          /\ turn[d2].ev = "dispatch"
                          /\ turn[d2].act.type = actionTypes.receive
                          /\ turn[d2].act.id = a.id
                          /\ turn[m2] = Event("next", turn[d2].act)
      [] OTHER -> TRUE

\* C20: every action of this resource dispatched in a turn is handed to next
\* once, after its dispatch, and what the interceptor derives from it (the
\* wrapped action of an AWAIT, the REQUEST of an operation, the optimistic
\* RECEIVE of an update) is dispatched and handed to next before it.
C20_ForwardedOnceAfterDerived ==
    \A i \in 1..Len(turn) :
        (turn[i].ev = "dispatch" /\ turn[i].act.resource = Name) =>
            LET a == turn[i].act
                N == {n \in 1..Len(turn) : turn[n] = Event("next", a)}
            IN /\ Cardinality(N) = 1
               /\ \A n \in N : n > i /\ DerivedBetween(i, n, a)

\* the turn of an awaited optimistic update: AWAIT, UPDATE, REQUEST and RECEIVE
\* were all dispatched in it, and the AWAIT reached next last
C20_Witness ==
    /\ optimistic
    /\ turn # <<>>
    /\ turn[1].ev = "dispatch" /\ turn[1].act.type = actionTypes.await
    /\ turn[1].act.action.type = actionTypes.update
    /\ turn[Len(turn)] = Event("next", turn[1].act)
    /\ DispatchedIn(turn, actionTypes.request) # {}
    /\ DispatchedIn(turn, actionTypes.receive) # {}

====
